---- MODULE Spec2Model ----
(***************************************************************************)
(* Incremental extraction of changed rows from the movies database         *)
(* (postgres_to_es/etl/movies_database.py) and the retry decorator          *)
(* (postgres_to_es/etl/backoff.py).                                         *)
(*                                                                          *)
(* Time is a small integer clock; a row's "modified" marker is the clock    *)
(* value of the transaction that last wrote it, 0 for a row that does not   *)
(* exist.  The watermark store (module etl.state) maps a key to a marker,   *)
(* 0 being the epoch it answers for a key never saved.                      *)
(***************************************************************************)
EXTENDS Integers, Sequences, FiniteSets, TLC

\* ---------------------------------------------------------------- bounds
MaxBase == 2      \* transactions committed before the first run
MaxWrites == 1    \* transactions committed between the runs
MaxRuns == 2      \* runs of a generator
MaxChunk == 2     \* page sizes tried

\* ------------------------------------------------------- the database
Entity == {"filmwork", "person", "genre"}

Persons == {"p1", "p2"}
Genres == {"g1"}
Filmworks == {"f1", "f2"}
Rows == Persons \cup Genres \cup Filmworks

\* content.person_film_work and content.genre_film_work: (entity id, film_work_id)
person_film_work == {<<"p1", "f1">>, <<"p1", "f2">>, <<"p2", "f2">>}
genre_film_work == {<<"g1", "f1">>}

Table(entity) ==
    CASE entity = "person" -> Persons
      [] entity = "genre" -> Genres
      [] entity = "filmwork" -> Filmworks

LinkTable(entity) ==
    CASE entity = "person" -> person_film_work
      [] entity = "genre" -> genre_film_work

\* ------------------------------------------------------- the variables
VARIABLES
    modified,    \* modified[r]: the marker of row r, 0 when r does not exist
    clock,       \* the marker of the last committed transaction
    chunk,       \* the LIMIT of every paginated query (_CHUNK_SIZE, 100 in the source)
    state,       \* etl.state: key -> persisted watermark
    op,          \* the public generator being pulled
    phase,       \* which stream of the generator's pipeline is running
    pc,          \* where that stream stands
    entity_ids,  \* the Stage-A batch the Stage-B sub-stream works on
    log,         \* what the current run did, in order
    runs,        \* runs started so far
    writes,      \* transactions committed so far
    h,           \* history: what earlier runs left behind
    bk,          \* one call through the backoff wrapper
    others       \* the generators the caller holds besides the one it is pulling

vars == <<modified, clock, chunk, state, op, phase, pc, entity_ids, log, runs, writes, h, bk, others>>
etl == <<modified, clock, chunk, state, op, phase, pc, entity_ids, log, runs, writes, h, others>>

\* ------------------------------------------------------- etl.state
Epoch == 0

\* (the same without the prefix)
_get_state_key_without_prefix(prefix) == "last_seen_modified"

_get_state_key(prefix) == prefix \o "_last_seen_modified"

Keys ==
    {_get_state_key(e) : e \in Entity}
        \cup {_get_state_key(e \o "_related") : e \in {"person", "genre"}}
        \cup {_get_state_key(e \o "_filmwork") : e \in {"person", "genre"}}

state_get(st, key) == st[key]
state_save(st, key, marker) == [st EXCEPT ![key] = marker]
state_reset(st, key) == [st EXCEPT ![key] = Epoch]

\* ------------------------------------------------------- queries
Min(a, b) == IF a < b THEN a ELSE b
Range(s) == {s[i] : i \in 1..Len(s)}
Last(s) == s[Len(s)]

\* A command is the set of rows its WHERE clause keeps and its LIMIT.
Cmd(rows, limit) == [rows |-> rows, limit |-> limit]

\* (the same with >= for >)
_build_sql_requesting_entity_ge(entity, last_seen_modified) ==
    Cmd({r \in Table(entity) : modified[r] > 0 /\ modified[r] >= last_seen_modified}, chunk)

_build_sql_requesting_entity(entity, last_seen_modified) ==
    Cmd({r \in Table(entity) : modified[r] > last_seen_modified}, chunk)

\* (the same without the condition on fw.modified)
_build_sql_requesting_filmworks_ids_with_entity_any_marker(entity, ids, last_seen_modified) ==
    Cmd({fw \in Filmworks :
            /\ \E id \in ids : <<id, fw>> \in LinkTable(entity)
            /\ modified[fw] > 0}, chunk)

_build_sql_requesting_filmworks_ids_with_entity(entity, ids, last_seen_modified) ==
    Cmd({fw \in Filmworks :
            /\ \E id \in ids : <<id, fw>> \in LinkTable(entity)
            /\ modified[fw] > last_seen_modified}, chunk)

\* The default of the optional parameters: no marker is below the epoch.
None == -1

\* What a builder gives when its assert fails: no command.
AssertionError == [raised |-> "AssertionError"]

\* ids: the identifiers asked for, {} when none is given (None or an empty
\* list).  Without identifiers the watermark is needed: the assert.
_build_sql_requesting_filmworks(ids, last_seen_modified) ==
    IF ids # {}
    THEN LET found == {fw \in Filmworks : fw \in ids /\ modified[fw] > 0}
         IN  Cmd(found, Cardinality(found))
    ELSE IF last_seen_modified = None
    THEN AssertionError
    ELSE Cmd({fw \in Filmworks : modified[fw] > last_seen_modified}, chunk)

_build_sql_requesting_genres(last_seen_modified) ==
    Cmd({g \in Genres : modified[g] > last_seen_modified}, chunk)

\* (the same without its WHERE clause)
_build_sql_requesting_personas_no_where(last_seen_modified) ==
    Cmd({p \in Persons : modified[p] > 0}, chunk)

_build_sql_requesting_personas(last_seen_modified) ==
    Cmd({p \in Persons : modified[p] > last_seen_modified}, chunk)

_get_sql_builder(entity, last_seen_modified) ==
    IF entity = "filmwork" THEN _build_sql_requesting_filmworks({}, last_seen_modified)
    ELSE IF entity = "genre" THEN _build_sql_requesting_genres(last_seen_modified)
    ELSE _build_sql_requesting_personas(last_seen_modified)

\* ORDER BY modified LIMIT n: the first n rows of some ordering by marker; rows
\* of equal marker come in any order, so the answer is one of a set.
OrderByModifiedLimit(rows, limit) ==
    LET k == Min(limit, Cardinality(rows))
    IN  {s \in [1..k -> rows] :
            /\ \A i, j \in 1..k : i # j => s[i] # s[j]
            /\ \A i \in 1..k, j \in 1..k : i < j => modified[s[i]] <= modified[s[j]]
            /\ \A r \in rows \ {s[i] : i \in 1..k} :
                   \A i \in 1..k : modified[s[i]] <= modified[r]}

\* What _db_execute returns when it returns.
_db_execute(cmd) == OrderByModifiedLimit(cmd.rows, cmd.limit)

\* (the same without handing the identifiers on)
_get_filmworks_by_ids_without_ids(filmwork_ids) ==
    LET cmd == _build_sql_requesting_filmworks({}, None)
    IN  IF cmd = AssertionError THEN {} ELSE _db_execute(cmd)

\* The lists of records _get_filmworks_by_ids may return: the rows of the given
\* identifiers, ordered by marker; none when the builder's assert fails.
_get_filmworks_by_ids(filmwork_ids) ==
    LET cmd == _build_sql_requesting_filmworks(Range(filmwork_ids), None)
    IN  IF cmd = AssertionError THEN {} ELSE _db_execute(cmd)

\* ------------------------------------------------------- etl.backoff
\* Times are in tenths of a second.  The defaults of the decorator:
start_sleep_time == 1
factor == 2
border_sleep_time == 100
attempts_threshold == 50

MaxThreshold == 3    \* besides the default, the thresholds 0..MaxThreshold are tried

Thresholds == 0..MaxThreshold \cup {attempts_threshold}
Factors == {1, factor, factor + 1}
Borders == {border_sleep_time, 5 * start_sleep_time}
Outcomes == {"ok", "retryable", "other"}
Args == {"cmd1", "cmd2"}    \* what the wrapper is called with

NoCall == [status |-> "none"]

\* min(start * factor^n, border), the power cut off at the border as soon as it
\* passes it (factor >= 1, so the product only grows).
RECURSIVE Power(_, _, _, _)
Power(start, f, n, border) ==
    IF n = 0 \/ start >= border THEN start
    ELSE Power(start * f, f, n - 1, border)

\* (the same counting the attempts from 0)
time_to_sleep_from_zero(start, f, n, border) ==
    LET t == Power(start, f, n - 1, border)
    IN  IF t < border THEN t ELSE border

time_to_sleep(start, f, n, border) ==
    LET t == Power(start, f, n, border)
    IN  IF t < border THEN t ELSE border

\* (the same, one attempt short)
Exhausted_at_threshold(n, threshold) == n >= threshold

\* n > attempts_threshold: no retry is left.
Exhausted(n, threshold) == n > threshold

\* backoff(...)(func)(*args): the wrapper is entered, n = 1.
backoff_call ==
    /\ bk.status \in {"none", "returned", "raised"}
    /\ \E threshold \in Thresholds, f \in Factors, border \in Borders, args \in Args :
          bk' = [status |-> "running", threshold |-> threshold, factor |-> f,
                 border |-> border, n |-> 1, calls |-> <<>>, sleeps |-> <<>>,
                 result |-> 0, args |-> args, passed |-> <<>>]
    /\ UNCHANGED etl

\* (the same with every exception caught)
Caught_any(outcome) == outcome # "ok"

\* except exceptions: the faults the wrapper catches are those of the configured
\* tuple (for _db_execute: OperationalError).
Caught(outcome) == outcome = "retryable"

\* One turn of the loop of inner: func is invoked, and returns or raises.
inner ==
    /\ bk.status = "running"
    /\ \E outcome \in Outcomes :
          LET calls == Append(bk.calls, outcome)
              passed == Append(bk.passed, bk.args)
          IN  IF outcome = "ok"
              THEN bk' = [bk EXCEPT !.status = "returned", !.calls = calls,
                                    !.passed = passed, !.result = Len(calls)]
              ELSE IF ~Caught(outcome)
              THEN bk' = [bk EXCEPT !.status = "raised", !.calls = calls, !.passed = passed]
              ELSE IF Exhausted(bk.n, bk.threshold)
              THEN bk' = [bk EXCEPT !.status = "raised", !.calls = calls, !.passed = passed]
              ELSE bk' = [bk EXCEPT !.calls = calls, !.passed = passed, !.n = bk.n + 1,
                            !.sleeps = Append(bk.sleeps,
                                time_to_sleep(start_sleep_time, bk.factor, bk.n, bk.border))]
    /\ UNCHANGED etl

\* ------------------------------------------------------- the generators
Stream(kind, entity) == [kind |-> kind, entity |-> entity]

get_updated_genres == <<Stream("direct", "genre")>>
get_updated_personas == <<Stream("direct", "person")>>
\* (the same with the direct stream first)
get_updated_filmworks_direct_first ==
    <<Stream("direct", "filmwork"), Stream("cascade", "person"), Stream("cascade", "genre")>>

get_updated_filmworks ==
    <<Stream("cascade", "person"), Stream("cascade", "genre"), Stream("direct", "filmwork")>>

Ops == {"genres", "personas", "filmworks"}

Pipeline(o) ==
    CASE o = "genres" -> get_updated_genres
      [] o = "personas" -> get_updated_personas
      [] o = "filmworks" -> get_updated_filmworks
      [] OTHER -> <<>>

Running == pc \in {"related", "dependent", "direct"}

Ev(ev, key, val, ids) == [ev |-> ev, key |-> key, val |-> val, ids |-> ids]

FirstPc(stream) == IF stream.kind = "cascade" THEN "related" ELSE "direct"

\* The stream of the current phase is exhausted: `yield from` moves on.
NextStream ==
    IF phase < Len(Pipeline(op))
    THEN /\ phase' = phase + 1
         /\ pc' = FirstPc(Pipeline(op)[phase + 1])
    ELSE /\ phase' = phase
         /\ pc' = "done"

Current == Pipeline(op)[phase]

\* should_generate at the end of an iteration that got the page `entities`: the
\* loop goes on after a page of any length and stops after an empty one.
should_generate_until_short(entities) == Len(entities) = chunk

should_generate(entities) == entities # <<>>

\* (the same taking the first row)
last_modified_of_first(entities) == modified[entities[1]]

\* entities[-1]["modified"]: the marker a reader loop saves for a page.
last_modified(entities) == modified[Last(entities)]

\* The else branch of _get_updated_entity: the stream ends, nothing is saved.
_get_updated_entity_else_reset(state_key, asked) ==
    /\ state' = state_reset(state, state_key)
    /\ log' = log \o asked \o <<Ev("reset", state_key, Epoch, <<>>)>>
    /\ NextStream

_get_updated_entity_else(state_key, asked) ==
    /\ log' = log \o asked
    /\ NextStream
    /\ UNCHANGED state

\* One iteration of the loop of _get_updated_entity: read the watermark, ask for
\* the next page, save the last row's marker, normalize and yield the page; an
\* empty page ends the stream.
_get_updated_entity ==
    /\ pc = "direct"
    /\ LET entity == Current.entity
           state_key == _get_state_key(entity)
           last_seen_modified == state_get(state, state_key)
           cmd == _get_sql_builder(entity, last_seen_modified)
           read == <<Ev("get", state_key, last_seen_modified, <<>>)>>
       IN  \/ \* the builder's assert fails
              /\ cmd = AssertionError
              /\ log' = log \o read \o <<Ev("raise", "AssertionError", 0, <<>>)>>
              /\ pc' = "failed"
              /\ UNCHANGED <<state, phase>>
           \/ \* _db_execute raises: the retries are exhausted
              /\ cmd # AssertionError
              /\ log' = log \o read \o <<Ev("raise", "OperationalError", 0, <<>>)>>
              /\ pc' = "failed"
              /\ UNCHANGED <<state, phase>>
           \/ \E entities \in (IF cmd = AssertionError THEN {} ELSE _db_execute(cmd)) :
                LET asked == read \o <<Ev("query", state_key, last_seen_modified, entities)>>
                IN  IF entities # <<>>
                    THEN LET marker == last_modified(entities)
                             saved == asked \o <<Ev("save", state_key, marker, <<>>)>>
                         IN  /\ state' = state_save(state, state_key, marker)
                             /\ \/ /\ log' = log \o saved \o <<Ev("emit", state_key, 0, entities)>>
                                   /\ IF should_generate(entities)
                                      THEN UNCHANGED <<pc, phase>>
                                      ELSE NextStream
                                \/ \* _normalize raises ValidationError
                                   /\ log' = log \o saved \o <<Ev("raise", "ValidationError", 0, <<>>)>>
                                   /\ pc' = "failed"
                                   /\ UNCHANGED phase
                    ELSE _get_updated_entity_else(state_key, asked)
    /\ UNCHANGED <<modified, clock, chunk, op, entity_ids, runs, writes, h, bk, others>>

\* (the same with the entity's own prefix)
related_unqualified(entity) == entity

\* f"{entity}_related": the prefix of the Stage-A key.
related(entity) == entity \o "_related"

\* The else branch of _get_updated_related_entities_ids: Stage A ends, nothing is
\* saved.
_get_updated_related_entities_ids_else_reset(state_key, asked) ==
    /\ state' = state_reset(state, state_key)
    /\ log' = log \o asked \o <<Ev("reset", state_key, Epoch, <<>>)>>
    /\ NextStream

_get_updated_related_entities_ids_else(state_key, asked) ==
    /\ log' = log \o asked
    /\ NextStream
    /\ UNCHANGED state

\* One iteration of the loop of _get_updated_related_entities_ids (Stage A): the
\* page's identifiers go to the loop of _get_filmorks_with_updated_related_entities.
_get_updated_related_entities_ids ==
    /\ pc = "related"
    /\ LET entity == Current.entity
           state_key == _get_state_key(related(entity))
           last_seen_modified == state_get(state, state_key)
           cmd == _build_sql_requesting_entity(entity, last_seen_modified)
           read == <<Ev("get", state_key, last_seen_modified, <<>>)>>
       IN  \/ /\ log' = log \o read \o <<Ev("raise", "OperationalError", 0, <<>>)>>
              /\ pc' = "failed"
              /\ UNCHANGED <<state, phase, entity_ids>>
           \/ \E entities \in _db_execute(cmd) :
                LET asked == read \o <<Ev("query", state_key, last_seen_modified, entities)>>
                IN  IF entities # <<>>
                    THEN LET marker == last_modified(entities)
                         IN  /\ state' = state_save(state, state_key, marker)
                             /\ log' = log \o asked \o <<Ev("save", state_key, marker, <<>>)>>
                             /\ entity_ids' = entities
                             /\ pc' = "dependent"
                             /\ UNCHANGED phase
                    ELSE /\ _get_updated_related_entities_ids_else(state_key, asked)
                         /\ UNCHANGED entity_ids
    /\ UNCHANGED <<modified, clock, chunk, op, runs, writes, h, bk, others>>

\* (the same taking one page of each sub-stream)
_get_filmorks_with_updated_related_entities_one_page == "related"

\* The loops of _get_filmorks_with_updated_related_entities: where the generator
\* goes on when it is pulled after a batch, the inner loop over the Stage-B
\* sub-stream of the batch of identifiers at hand.
_get_filmorks_with_updated_related_entities == "dependent"

\* (the same without the reset)
_get_filmworks_ids_with_related_entities_else_no_reset(state_key, asked) ==
    /\ log' = log \o asked
    /\ pc' = "related"
    /\ UNCHANGED state

\* The else branch of _get_filmworks_ids_with_related_entities: the key is reset
\* and the sub-stream ends; Stage A is asked for its next batch.
_get_filmworks_ids_with_related_entities_else(state_key, asked) ==
    /\ state' = state_reset(state, state_key)
    /\ log' = log \o asked \o <<Ev("reset", state_key, Epoch, <<>>)>>
    /\ pc' = "related"

\* One iteration of the loop of _get_filmworks_ids_with_related_entities (Stage B)
\* and, for a page, the body of the loop that pulls it: _get_filmworks_by_ids.
_get_filmworks_ids_with_related_entities ==
    /\ pc = "dependent"
    /\ LET entity == Current.entity
           state_key == _get_state_key(entity \o "_filmwork")
           last_seen_modified == state_get(state, state_key)
           cmd == _build_sql_requesting_filmworks_ids_with_entity(
                      entity, Range(entity_ids), last_seen_modified)
           read == <<Ev("get", state_key, last_seen_modified, <<>>)>>
       IN  \/ /\ log' = log \o read \o <<Ev("raise", "OperationalError", 0, <<>>)>>
              /\ pc' = "failed"
              /\ UNCHANGED <<state, phase, entity_ids>>
           \/ \E filmworks \in _db_execute(cmd) :
                LET asked == read \o <<Ev("query", state_key, last_seen_modified, filmworks)>>
                IN  IF filmworks # <<>>
                    THEN LET marker == last_modified(filmworks)
                             saved == asked \o <<Ev("save", state_key, marker, <<>>)>>
                         IN  /\ state' = state_save(state, state_key, marker)
                             /\ \/ \E records \in _get_filmworks_by_ids(filmworks) :
                                      /\ log' = log \o saved \o <<Ev("emit", state_key, 0, records)>>
                                      /\ pc' = _get_filmorks_with_updated_related_entities
                                \/ \* the assert of the lookup's builder fails
                                   /\ _get_filmworks_by_ids(filmworks) = {}
                                   /\ log' = log \o saved \o <<Ev("raise", "AssertionError", 0, <<>>)>>
                                   /\ pc' = "failed"
                                \/ \* _db_execute of the lookup by ids raises
                                   /\ _get_filmworks_by_ids(filmworks) # {}
                                   /\ log' = log \o saved \o <<Ev("raise", "OperationalError", 0, <<>>)>>
                                   /\ pc' = "failed"
                                \/ \* _normalize raises ValidationError
                                   /\ _get_filmworks_by_ids(filmworks) # {}
                                   /\ log' = log \o saved \o <<Ev("raise", "ValidationError", 0, <<>>)>>
                                   /\ pc' = "failed"
                             /\ UNCHANGED <<phase, entity_ids>>
                    ELSE /\ _get_filmworks_ids_with_related_entities_else(state_key, asked)
                         /\ UNCHANGED <<phase, entity_ids>>
    /\ UNCHANGED <<modified, clock, chunk, op, runs, writes, h, bk, others>>

\* ------------------------------------------------------- the caller
Emitted(l) == UNION {Range(l[i].ids) : i \in {j \in 1..Len(l) : l[j].ev = "emit"}}
EmitKeys(l) == {l[i].key : i \in {j \in 1..Len(l) : l[j].ev = "emit"}}

NoHistory ==
    [state0 |-> [k \in Keys |-> Epoch], got |-> {}, chain |-> {}, clean |-> TRUE,
     repeat |-> FALSE, before |-> {}, dirty |-> FALSE]

\* The generator objects one caller may hold at a time: one of each public
\* generator and a second get_updated_filmworks().
Instances == {"genres", "personas", "filmworks", "filmworks2"}

GeneratorOf(inst) == IF inst = "filmworks2" THEN "filmworks" ELSE inst

Created == [phase |-> 1, pc |-> "created", entity_ids |-> <<>>, log |-> <<>>]

NoOthers == [cur |-> "none", frames |-> [inst \in Instances |-> Created]]

\* The caller starts to pull generator o.  A run that follows an interrupted run
\* of the same generator, with no write in between, continues its chain.
Start(o) ==
    /\ ~Running
    /\ runs < MaxRuns
    /\ runs' = runs + 1
    /\ op' = o
    /\ phase' = 1
    /\ pc' = FirstPc(Pipeline(o)[1])
    /\ log' = <<>>
    /\ entity_ids' = <<>>
    /\ LET continues == op = o /\ pc \in {"stopped", "failed"} /\ ~h.dirty
       IN  h' = [state0 |-> IF continues THEN h.state0 ELSE state,
                 got |-> IF continues THEN h.got \cup Emitted(log) ELSE {},
                 chain |-> IF continues THEN h.chain \cup {pc} ELSE {},
                 clean |-> IF continues THEN h.clean
                           ELSE h.clean /\ h.chain = {} /\ pc \in {"idle", "done"},
                 repeat |-> op = o /\ pc = "done" /\ ~h.dirty,
                 before |-> IF op = o /\ pc = "done" /\ ~h.dirty THEN EmitKeys(log) ELSE {},
                 dirty |-> FALSE]
    /\ UNCHANGED <<modified, clock, chunk, state, writes, bk, others>>

\* The caller stops pulling: the generator stays suspended at its last yield.
Stop ==
    /\ Running
    /\ log # <<>>
    /\ Last(log).ev = "emit"
    /\ pc' = "stopped"
    /\ UNCHANGED <<modified, clock, chunk, state, op, phase, entity_ids, log, runs, writes, h, bk, others>>

\* The caller turns to another of the generators it holds and pulls it: the one
\* it was pulling stays suspended at its last yield (or is exhausted), with its
\* local variables; the other starts, or goes on from where it was suspended.
Pull(inst) ==
    /\ inst # others.cur
    /\ others.frames[inst].pc \notin {"done", "failed"}
    /\ IF others.cur = "none"
       THEN pc = "idle" /\ runs = 0
       ELSE ~Running \/ (log # <<>> /\ Last(log).ev = "emit")
    /\ LET frame == others.frames[inst]
           mine == [phase |-> phase, pc |-> pc, entity_ids |-> entity_ids, log |-> log]
       IN  /\ others' = [cur |-> inst,
                         frames |-> IF others.cur = "none" THEN others.frames
                                    ELSE [others.frames EXCEPT ![others.cur] = mine]]
           /\ op' = GeneratorOf(inst)
           /\ phase' = frame.phase
           /\ pc' = IF frame.pc = "created" THEN FirstPc(Pipeline(GeneratorOf(inst))[1]) ELSE frame.pc
           /\ entity_ids' = frame.entity_ids
           /\ log' = frame.log
    /\ h' = IF others.cur = "none" THEN [h EXCEPT !.state0 = state] ELSE h
    /\ UNCHANGED <<modified, clock, chunk, state, runs, writes, bk>>

\* A transaction inserts or updates the rows of S between two runs: every row
\* it writes gets the transaction's marker.  What is remembered of the runs
\* before it is whether each of them was drained.
Write(S) ==
    /\ ~Running
    /\ runs < MaxRuns
    /\ writes < MaxWrites
    /\ writes' = writes + 1
    /\ clock' = clock + 1
    /\ modified' = [r \in Rows |-> IF r \in S THEN clock + 1 ELSE modified[r]]
    /\ op' = "none"
    /\ pc' = "idle"
    /\ phase' = 1
    /\ log' = <<>>
    /\ entity_ids' = <<>>
    /\ h' = [NoHistory EXCEPT !.clean = h.clean /\ h.chain = {} /\ pc \in {"idle", "done"},
                              !.dirty = TRUE]
    /\ UNCHANGED <<chunk, state, runs, bk, others>>

\* The transactions of the time before: the i-th wrote the rows BaseTxn(i).
BaseTxn(i) == IF i % 2 = 1 THEN {"p1", "g1", "f1"} ELSE {"p2", "f2"}

BaseModified(k) ==
    [r \in Rows |->
        LET at == {i \in 1..k : r \in BaseTxn(i)}
        IN  IF at = {} THEN 0 ELSE CHOOSE i \in at : \A j \in at : j <= i]

MaxMarker(rows, mod) ==
    IF rows = {} THEN Epoch
    ELSE LET r == CHOOSE x \in rows : \A y \in rows : mod[y] <= mod[x] IN mod[r]

\* The watermarks a drained run of every generator leaves over the rows mod: a
\* direct or Stage-A stream stops at the greatest marker of its table, a Stage-B
\* sub-stream resets its key.
Drained(mod) ==
    [key \in Keys |->
        IF \E e \in Entity : key \in {_get_state_key(e), _get_state_key(e \o "_related")}
        THEN LET e == CHOOSE x \in Entity :
                          key \in {_get_state_key(x), _get_state_key(x \o "_related")}
             IN  MaxMarker(Table(e), mod)
        ELSE Epoch]

\* An installation that has committed its first k transactions, the first d of
\* which have been extracted by drained runs of the three generators (k = 0: a
\* new installation, no row, every watermark at the epoch).
Init ==
    /\ \E k \in 0..MaxBase : \E d \in 0..k :
          /\ modified = BaseModified(k)
          /\ clock = k
          /\ state = Drained(BaseModified(d))
    /\ chunk \in 1..MaxChunk
    /\ writes = 0
    /\ op = "none"
    /\ phase = 1
    /\ pc = "idle"
    /\ entity_ids = <<>>
    /\ log = <<>>
    /\ runs = 0
    /\ h = NoHistory
    /\ bk = NoCall
    /\ others = NoOthers

Next ==
    \/ \E S \in SUBSET Rows \ {{}} : Write(S)
    \/ \E o \in Ops : Start(o)
    \/ _get_updated_entity
    \/ _get_updated_related_entities_ids
    \/ _get_filmworks_ids_with_related_entities
    \/ Stop

Spec == Init /\ [][Next]_vars

\* A caller that drains what it starts, over a store nobody writes to, and an
\* executor that answers every query or gives up: no reader loop waits for ever.
NextDrain ==
    \/ \E o \in Ops : Start(o)
    \/ _get_updated_entity
    \/ _get_updated_related_entities_ids
    \/ _get_filmworks_ids_with_related_entities

SpecDrain ==
    /\ Init
    /\ [][NextDrain]_vars
    /\ WF_vars(_get_updated_entity)
    /\ WF_vars(_get_updated_related_entities_ids)
    /\ WF_vars(_get_filmworks_ids_with_related_entities)

\* One caller that holds several generators and pulls them in any order, over a
\* store nobody writes to.
NextInterleaved ==
    \/ \E inst \in Instances : Pull(inst)
    \/ _get_updated_entity
    \/ _get_updated_related_entities_ids
    \/ _get_filmworks_ids_with_related_entities

SpecInterleaved == Init /\ [][NextInterleaved]_vars

\* The wrapper alone, over an installation that stays as it is.
InitBackoff ==
    /\ modified = BaseModified(0)
    /\ clock = 0
    /\ state = Drained(BaseModified(0))
    /\ chunk = 1
    /\ writes = 0
    /\ op = "none"
    /\ phase = 1
    /\ pc = "idle"
    /\ entity_ids = <<>>
    /\ log = <<>>
    /\ runs = 0
    /\ h = NoHistory
    /\ bk = NoCall
    /\ others = NoOthers

NextBackoff ==
    \/ backoff_call
    \/ inner

SpecBackoff == InitBackoff /\ [][NextBackoff]_vars

\* ------------------------------------------------------- reading the log
At(l, ev) == {i \in 1..Len(l) : l[i].ev = ev}
AtKey(l, ev, key) == {i \in At(l, ev) : l[i].key = key}

DirectKey(e) == _get_state_key(e)
RelatedKey(e) == _get_state_key(e \o "_related")
FilmworkKey(e) == _get_state_key(e \o "_filmwork")

DirectOf(o) == {Pipeline(o)[i].entity : i \in {j \in 1..Len(Pipeline(o)) : Pipeline(o)[j].kind = "direct"}}
CascadesOf(o) == {Pipeline(o)[i].entity : i \in {j \in 1..Len(Pipeline(o)) : Pipeline(o)[j].kind = "cascade"}}

\* The rows a direct stream of entity e owes from the watermarks st: those whose
\* marker is greater than its watermark.
DirectDue(e, st) == {r \in Table(e) : modified[r] > st[DirectKey(e)]}

\* The filmworks a cascade of entity e owes from the watermarks st: those linked
\* to a row of e whose marker is greater than the Stage-A watermark.
CascadeDue(e, st) ==
    {fw \in Filmworks :
        /\ modified[fw] > 0
        /\ \E r \in Table(e) : modified[r] > st[RelatedKey(e)] /\ <<r, fw>> \in LinkTable(e)}

Due(o, st) ==
    UNION ({DirectDue(e, st) : e \in DirectOf(o)} \cup {CascadeDue(e, st) : e \in CascadesOf(o)})

\* No two rows of one table carry the same marker.
NoTies ==
    \A e \in Entity : \A r1, r2 \in Table(e) :
        (r1 # r2 /\ modified[r1] > 0) => modified[r1] # modified[r2]

\* The run that stands is the first of its chain, it was pulled to its end, and
\* every run before it was.
DrainedAlone == pc = "done" /\ h.chain = {} /\ h.clean

\* What Init assumes of the runs before it: an uninterrupted drained run leaves
\* the keys of its generator as Drained says.
DrainedRunsLeaveDrained ==
    DrainedAlone =>
        \A e \in DirectOf(op) \cup CascadesOf(op) :
            /\ e \in DirectOf(op) => state[DirectKey(e)] = Drained(modified)[DirectKey(e)]
            /\ e \in CascadesOf(op) =>
                   /\ state[RelatedKey(e)] = Drained(modified)[RelatedKey(e)]
                   /\ state[FilmworkKey(e)] = Epoch

\* ------------------------------------------------------- the claims

\* C1: cascade completeness.  After uninterrupted earlier runs, a drained run of
\* get_updated_filmworks() has emitted every filmwork linked to a person or genre
\* row whose marker is greater than the Stage-A watermark the run started from.
C1_CascadeCompleteness ==
    (op = "filmworks" /\ DrainedAlone) =>
        \A e \in {"person", "genre"} : CascadeDue(e, h.state0) \subseteq Emitted(log)

\* C2: stream order.  In a run of get_updated_filmworks() everything the person
\* cascade does comes before everything the genre cascade does, which comes before
\* everything the direct filmwork stream does; and the direct stream is queried
\* only after both cascades got their empty Stage-A page.
Rank ==
    [key \in Keys |->
        CASE key \in {RelatedKey("person"), FilmworkKey("person")} -> 1
          [] key \in {RelatedKey("genre"), FilmworkKey("genre")} -> 2
          [] key = DirectKey("filmwork") -> 3
          [] OTHER -> 0]

StageAKeys == {RelatedKey("person"), RelatedKey("genre")}

C2_CascadesBeforeDirect ==
    op = "filmworks" =>
        LET n == Len(log)
        IN  /\ \A i \in 1..n : log[i].ev # "raise" => Rank[log[i].key] > 0
            /\ \A i \in 1..(n - 1) :
                   log[i + 1].ev # "raise" => Rank[log[i].key] <= Rank[log[i + 1].key]
            /\ \A j \in 1..n :
                   (log[j].ev # "raise" /\ Rank[log[j].key] = 3) =>
                       \A key \in StageAKeys :
                           \E i \in 1..(j - 1) :
                               log[i].ev = "query" /\ log[i].key = key /\ log[i].ids = <<>>

C2_Witness ==
    /\ op = "filmworks"
    /\ pc = "done"
    /\ \E i \in AtKey(log, "emit", FilmworkKey("person")) :
       \E j \in AtKey(log, "emit", FilmworkKey("genre")) :
       \E k \in AtKey(log, "emit", DirectKey("filmwork")) :
           /\ i < j /\ j < k
           /\ "f2" \in Range(log[i].ids)

\* C3: no missed and no duplicated update in a direct stream.  A direct stream
\* drained in an uninterrupted run has emitted each row whose marker was greater
\* than the watermark at the start in exactly one page, and no other row.
PagesWith(key, r) == {i \in AtKey(log, "emit", key) : r \in Range(log[i].ids)}

C3_EachDueRowOnce ==
    DrainedAlone =>
        \A e \in DirectOf(op) : \A r \in Table(e) :
            Cardinality(PagesWith(DirectKey(e), r)) = (IF r \in DirectDue(e, h.state0) THEN 1 ELSE 0)

\* C4: stopping between pages.  A run stopped by its caller after a batch and
\* followed, with no write in between, by a drained run of the same generator:
\* together they have emitted every record owed when the stopped run started.
\* (Stated for tables without equal markers and after uninterrupted earlier runs,
\* where an uninterrupted run emits exactly the records owed.)
C4_StopThenResumeEmitsAll ==
    (pc = "done" /\ h.chain = {"stopped"} /\ h.clean /\ NoTies) =>
        Due(op, h.state0) \subseteq (h.got \cup Emitted(log))

\* C5: at-least-once across a failed run.  A run ended by an exception of a
\* query or of the normalization and followed, with no write in between, by a
\* drained run of the same generator: together they have emitted every record
\* owed when the failed run started.  (Stated as C4 is.)
C5_FailThenRerunEmitsAll ==
    (pc = "done" /\ h.chain = {"failed"} /\ h.clean /\ NoTies) =>
        Due(op, h.state0) \subseteq (h.got \cup Emitted(log))

\* C6: watermark monotonicity.  Every marker saved is at least the watermark the
\* same iteration read, and the markers one reader loop saves under a key never
\* decrease (a reset of the key ends a Stage-B loop).
C6_SavedMarkersMonotone ==
    /\ \A i \in At(log, "save") :
           /\ i > 2
           /\ log[i - 2].ev = "get"
           /\ log[i - 2].key = log[i].key
           /\ log[i - 2].val <= log[i].val
    /\ \A i, j \in At(log, "save") :
           (/\ i < j
            /\ log[i].key = log[j].key
            /\ \A k \in AtKey(log, "reset", log[i].key) : k < i \/ k > j)
               => log[i].val <= log[j].val

C6_Witness ==
    \E i, j \in At(log, "save") :
        /\ i < j
        /\ log[i].key = log[j].key
        /\ log[i].val < log[j].val
        /\ \A k \in AtKey(log, "reset", log[i].key) : k < i \/ k > j
        /\ log[i - 2].val > Epoch

\* C7: idempotent resumption of a direct stream.  A run that follows a drained
\* run of the same generator, with no write in between, gets no page from its
\* direct stream and leaves the stream's watermark as it found it.
C7_RepeatedDirectStreamIsEmpty ==
    h.repeat =>
        \A e \in DirectOf(op) :
            /\ AtKey(log, "emit", DirectKey(e)) = {}
            /\ AtKey(log, "save", DirectKey(e)) = {}
            /\ state[DirectKey(e)] = h.state0[DirectKey(e)]

C7_Witness ==
    /\ h.repeat
    /\ pc = "done"
    /\ \E e \in DirectOf(op) :
          /\ DirectKey(e) \in h.before
          /\ AtKey(log, "query", DirectKey(e)) # {}

\* C8: cascade reset idempotence.  A run of get_updated_filmworks() that follows
\* a drained one, with no write in between, gets no batch from either cascade.
C8_RepeatedCascadeIsEmpty ==
    (h.repeat /\ op = "filmworks") =>
        \A e \in CascadesOf(op) :
            /\ AtKey(log, "emit", FilmworkKey(e)) = {}
            /\ AtKey(log, "save", RelatedKey(e)) = {}

C8_Witness ==
    /\ h.repeat
    /\ op = "filmworks"
    /\ pc = "done"
    /\ FilmworkKey("person") \in h.before
    /\ state[FilmworkKey("person")] = Epoch
    /\ AtKey(log, "query", RelatedKey("person")) # {}

\* C9 as claimed: after a query of a direct stream that returned fewer rows than
\* the chunk size, no further query is issued for the stream's key.
C9_ShortPageEndsStream ==
    \A e \in DirectOf(op) :
        \A i, j \in AtKey(log, "query", DirectKey(e)) :
            Len(log[i].ids) < chunk => j <= i

\* C9 as amended: the queries of a direct stream all return a page, a full one
\* or a shorter one, except the last of a drained stream, which returns no row:
\* the stream has ended exactly when its last query returned no row.
C9_OnlyEmptyPageEndsStream ==
    \A e \in DirectOf(op) :
        LET asked == AtKey(log, "query", DirectKey(e))
        IN  /\ \A i, j \in asked : i < j => log[i].ids # <<>>
            /\ pc = "done" => \E i \in asked : log[i].ids = <<>>
            /\ (\E i \in asked : log[i].ids = <<>>) => pc = "done"
            /\ (pc = "direct" /\ Current.entity = e) => ENABLED _get_updated_entity

C9_Witness ==
    /\ pc = "done"
    /\ chunk > 1
    /\ \E e \in DirectOf(op) :
       \E i, j \in AtKey(log, "query", DirectKey(e)) :
           /\ i < j
           /\ Len(log[i].ids) > 0
           /\ Len(log[i].ids) < chunk

\* C10: bounded retry.  The wrapped operation is invoked at most
\* attempts_threshold + 1 times in a call; the wrapper raises a retryable fault
\* exactly when that many invocations raised one, and it returns the result of
\* the invocation that succeeded.
AllRetryable(calls) == \A i \in 1..Len(calls) : calls[i] = "retryable"

C10_BoundedRetry ==
    bk.status # "none" =>
        /\ Len(bk.calls) <= bk.threshold + 1
        /\ (Len(bk.calls) = bk.threshold + 1 /\ AllRetryable(bk.calls)) => bk.status = "raised"
        /\ (bk.status = "raised" /\ AllRetryable(bk.calls)) => Len(bk.calls) = bk.threshold + 1
        /\ (bk.calls # <<>> /\ Last(bk.calls) = "ok") =>
               /\ bk.status = "returned"
               /\ bk.result = Len(bk.calls)
        /\ bk.status = "returned" => (bk.calls # <<>> /\ Last(bk.calls) = "ok")
        /\ bk.status = "running" => AllRetryable(bk.calls)

C10_Witness ==
    /\ bk.status = "raised"
    /\ bk.threshold = 2
    /\ bk.calls = <<"retryable", "retryable", "retryable">>

\* C11: a fault that is not retryable propagates at once.  The invocation that
\* raised it is the last of the call: the wrapper has raised, it has slept once
\* for each retryable fault before it and not after it, however many those were.
C11_OtherFaultPropagates ==
    bk.status # "none" =>
        /\ \A i \in 1..Len(bk.calls) : bk.calls[i] = "other" => i = Len(bk.calls)
        /\ (bk.calls # <<>> /\ Last(bk.calls) = "other") =>
               /\ bk.status = "raised"
               /\ Len(bk.sleeps) = Len(bk.calls) - 1
               /\ \A i \in 1..(Len(bk.calls) - 1) : bk.calls[i] = "retryable"
               /\ bk.n = Len(bk.calls)

C11_Witness ==
    /\ bk.status = "raised"
    /\ bk.threshold = attempts_threshold
    /\ bk.calls = <<"retryable", "retryable", "other">>
    /\ Len(bk.sleeps) = 2

\* C12: Stage B restarts from the beginning.  In a run of get_updated_filmworks()
\* that is the first of its chain and found the '<kind>_filmwork' key at the
\* epoch: the first iteration of every Stage-B sub-stream reads the epoch; once
\* the cascade has returned the key is at the epoch; and a sub-stream whose first
\* page is empty emits nothing and resets the key.
SubStreams(e) ==
    {i \in AtKey(log, "get", FilmworkKey(e)) :
        i > 1 /\ log[i - 1].ev = "save" /\ log[i - 1].key = RelatedKey(e)}

Returned(e) == \E i \in AtKey(log, "query", RelatedKey(e)) : log[i].ids = <<>>

C12_StageBRestartsFromEpoch ==
    (op = "filmworks" /\ h.chain = {}) =>
        \A e \in CascadesOf(op) :
            h.state0[FilmworkKey(e)] = Epoch =>
                /\ \A i \in SubStreams(e) :
                       /\ log[i].val = Epoch
                       /\ (Len(log) >= i + 1 /\ log[i + 1].ev = "query" /\ log[i + 1].ids = <<>>) =>
                              /\ Len(log) >= i + 2
                              /\ log[i + 2] = Ev("reset", FilmworkKey(e), Epoch, <<>>)
                              /\ Len(log) = i + 2 => state[FilmworkKey(e)] = Epoch
                /\ Returned(e) => state[FilmworkKey(e)] = Epoch

\* Two batches: the sub-stream of the first advanced the key, the second has no
\* dependent filmwork.
C12_Witness ==
    /\ op = "filmworks"
    /\ pc = "done"
    /\ h.chain = {}
    /\ h.state0[FilmworkKey("person")] = Epoch
    /\ \E i, j \in SubStreams("person") :
          /\ i < j
          /\ \E k \in AtKey(log, "save", FilmworkKey("person")) : i < k /\ k < j /\ log[k].val > Epoch
          /\ log[j].val = Epoch
          /\ log[j + 1].ev = "query" /\ log[j + 1].ids = <<>>

\* C13: stage order inside a cascade.  Every Stage-A iteration but the first of
\* its cascade comes right after the empty page and the reset that end a Stage-B
\* sub-stream; every Stage-B page holds only filmworks linked to the batch Stage A
\* produced last, and a sub-stream's queries all lie between the save of its batch
\* and the next Stage-A iteration.
LastBatch(e, i) ==
    LET a == CHOOSE x \in AtKey(log, "query", RelatedKey(e)) :
                 x < i /\ \A y \in AtKey(log, "query", RelatedKey(e)) : y < i => y <= x
    IN  Range(log[a].ids)

C13_StageBDrainedBeforeNextBatch ==
    op = "filmworks" =>
        \A e \in CascadesOf(op) :
            /\ \A i \in AtKey(log, "get", RelatedKey(e)) :
                   (\E a \in AtKey(log, "save", RelatedKey(e)) : a < i) =>
                       /\ log[i - 1] = Ev("reset", FilmworkKey(e), Epoch, <<>>)
                       /\ log[i - 2].ev = "query"
                       /\ log[i - 2].key = FilmworkKey(e)
                       /\ log[i - 2].ids = <<>>
            /\ \A i \in AtKey(log, "query", FilmworkKey(e)) :
                   /\ \E a \in AtKey(log, "save", RelatedKey(e)) : a < i
                   /\ \A fw \in Range(log[i].ids) :
                          \E id \in LastBatch(e, i) : <<id, fw>> \in LinkTable(e)
            /\ \A a \in AtKey(log, "save", RelatedKey(e)) :
                   Len(log) > a => (log[a + 1].ev = "raise" \/ log[a + 1].key = FilmworkKey(e))

\* Two batches of persons, each with a page of filmworks.
C13_Witness ==
    /\ op = "filmworks"
    /\ pc = "done"
    /\ \E a, b \in AtKey(log, "save", RelatedKey("person")) :
          /\ a < b
          /\ \E i, j \in AtKey(log, "emit", FilmworkKey("person")) :
                a < i /\ i < b /\ b < j /\ log[i].ids # log[j].ids

\* C14: save before emit.  Every iteration of a reader loop is get, query, then
\* for a page save of the last row's marker, then the emission; when a page has
\* just been handed over the persisted watermark of its key is the marker of the
\* page's last row; an empty page of a direct or Stage-A stream is the last thing
\* the stream does and leaves its key as the iteration read it.
DirectKeys == {DirectKey(e) : e \in Entity}

C14_SaveBeforeEmit ==
    LET n == Len(log)
    IN  /\ \A i \in At(log, "query") :
               /\ i > 1
               /\ log[i - 1].ev = "get"
               /\ log[i - 1].key = log[i].key
               /\ log[i - 1].val = log[i].val
        /\ \A i \in At(log, "get") : n > i => log[i + 1].ev \in {"query", "raise"}
        /\ \A i \in At(log, "save") :
               /\ i > 1
               /\ log[i - 1].ev = "query"
               /\ log[i - 1].key = log[i].key
               /\ log[i - 1].ids # <<>>
               /\ log[i].val = modified[Last(log[i - 1].ids)]
               /\ \A r \in Range(log[i - 1].ids) : modified[r] <= log[i].val
        /\ \A i \in At(log, "query") :
               (log[i].ids # <<>> /\ n > i) => (log[i + 1].ev = "save" /\ log[i + 1].key = log[i].key)
        /\ \A i \in At(log, "emit") :
               /\ i > 1
               /\ log[i - 1].ev = "save"
               /\ log[i - 1].key = log[i].key
               /\ Range(log[i].ids) = Range(log[i - 2].ids)
        /\ (n > 0 /\ Last(log).ev \in {"emit", "save"}) =>
               /\ state[Last(log).key] = modified[Last(log[IF Last(log).ev = "emit" THEN n - 2 ELSE n - 1].ids)]
        /\ \A i \in At(log, "query") :
               (log[i].ids = <<>> /\ log[i].key \in DirectKeys \cup StageAKeys) =>
                   /\ state[log[i].key] = log[i].val
                   /\ \A j \in (i + 1)..n : log[j].ev = "raise" \/ log[j].key # log[i].key

\* A direct stream handed over a page of two rows of different markers, after a
\* cascade did.
C14_Witness ==
    /\ pc = "direct"
    /\ log # <<>>
    /\ Last(log).ev = "emit"
    /\ Len(Last(log).ids) = 2
    /\ modified[Last(log).ids[1]] < modified[Last(log).ids[2]]
    /\ state[Last(log).key] = modified[Last(log).ids[2]]
    /\ AtKey(log, "emit", FilmworkKey("person")) # {}

\* The keys a generator's streams work on.
KeysOf ==
    [o \in Ops |->
        {DirectKey(e) : e \in DirectOf(o)}
            \cup {RelatedKey(e) : e \in CascadesOf(o)}
            \cup {FilmworkKey(e) : e \in CascadesOf(o)}]

StreamKeys == UNION {KeysOf[o] : o \in Ops}

Prefixes ==
    Entity \cup {e \o "_related" : e \in {"person", "genre"}}
           \cup {e \o "_filmwork" : e \in {"person", "genre"}}

\* Every event of a run is on a key of its generator (the lookup by identifiers,
\* between a Stage-B save and its emission, adds none), and every other key is as
\* the run found it.
Frame ==
    op \in Ops =>
        /\ \A i \in 1..Len(log) : log[i].ev # "raise" => log[i].key \in KeysOf[op]
        /\ \A key \in Keys \ KeysOf[op] : state[key] = h.state0[key]
        /\ \A i \in At(log, "emit") : log[i - 1].ev = "save"

FrameOfEach ==
    /\ KeysOf["genres"] = {DirectKey("genre")}
    /\ KeysOf["personas"] = {DirectKey("person")}
    /\ KeysOf["filmworks"] =
           {RelatedKey("person"), FilmworkKey("person"), RelatedKey("genre"),
            FilmworkKey("genre"), DirectKey("filmwork")}
    /\ Cardinality(KeysOf["filmworks"]) = 5
    /\ KeysOf["filmworks"] \cap {DirectKey("genre"), DirectKey("person")} = {}

Injective == \A p, q \in Prefixes : p # q => _get_state_key(p) # _get_state_key(q)

\* C15 as claimed: the frame of each generator, and the stream keys are six,
\* pairwise distinct.
C15_FrameOverSixKeys ==
    /\ Frame
    /\ FrameOfEach
    /\ Injective
    /\ Cardinality(StreamKeys) = 6

\* C15 as amended: the frame of each generator, and the stream keys are seven,
\* pairwise distinct: one for 'genre', one for 'person' and the five of
\* get_updated_filmworks().
C15_FrameOverSevenKeys ==
    /\ Frame
    /\ FrameOfEach
    /\ Injective
    /\ Cardinality(StreamKeys) = 7
    /\ StreamKeys = Keys

\* A drained run of get_updated_filmworks() that saved under its five keys, over
\* 'genre' and 'person' keys that are not at the epoch.
C15_Witness ==
    /\ op = "filmworks"
    /\ pc = "done"
    /\ {log[i].key : i \in At(log, "save")} = KeysOf["filmworks"]
    /\ state[DirectKey("genre")] > Epoch
    /\ state[DirectKey("person")] > Epoch

\* C16: the delays.  The sleep after the n-th consecutive retryable failure is
\* min(start_sleep_time * factor^n, border_sleep_time): at most the border, never
\* less than the sleep before it; and every invocation gets the arguments the
\* wrapper was called with.
RECURSIVE MinPow(_, _, _, _)
MinPow(start, f, n, border) ==
    IF n = 0 THEN Min(start, border)
    ELSE Min(MinPow(start, f, n - 1, border) * f, border)

C16_Delays ==
    bk.status # "none" =>
        /\ \A i \in 1..Len(bk.sleeps) :
               /\ bk.sleeps[i] = MinPow(start_sleep_time, bk.factor, i, bk.border)
               /\ bk.sleeps[i] <= bk.border
               /\ i > 1 => bk.sleeps[i - 1] <= bk.sleeps[i]
               /\ bk.calls[i] = "retryable"
        /\ Len(bk.sleeps) = bk.n - 1
        /\ Len(bk.passed) = Len(bk.calls)
        /\ \A i \in 1..Len(bk.passed) : bk.passed[i] = bk.args

\* The default configuration: the delays double from 0.2 s and stay at 10 s.
C16_Witness ==
    /\ bk.status = "running"
    /\ bk.factor = factor
    /\ bk.border = border_sleep_time
    /\ Len(bk.sleeps) = 8
    /\ bk.sleeps[1] = 2 /\ bk.sleeps[6] = 64 /\ bk.sleeps[7] = 100 /\ bk.sleeps[8] = 100
    /\ bk.args = "cmd2"

\* C17: termination.  Over a store with no write during the run, with a caller
\* that drains and an executor that answers or gives up, every run of a generator
\* ends; the watermarks one reader loop reads strictly increase, so a loop asks
\* at most once more than its table has rows.
LoopsEnd ==
    /\ \A i, j \in At(log, "get") :
           (/\ i < j
            /\ log[i].key = log[j].key
            /\ \A k \in AtKey(log, "reset", log[i].key) : k < i \/ k > j)
               => log[i].val < log[j].val
    /\ \A e \in DirectOf(op) :
           Cardinality(AtKey(log, "query", DirectKey(e))) <= Cardinality(Table(e)) + 1
    /\ \A e \in CascadesOf(op) :
           /\ Cardinality(AtKey(log, "query", RelatedKey(e))) <= Cardinality(Table(e)) + 1
           /\ Cardinality(AtKey(log, "query", FilmworkKey(e)))
                  <= Cardinality(AtKey(log, "save", RelatedKey(e))) * (Cardinality(Filmworks) + 1)

C17_Termination ==
    /\ []LoopsEnd
    /\ \A o \in Ops : (op = o /\ Running) ~> (op = o /\ pc \in {"done", "failed"})

\* A drained run of get_updated_filmworks() whose loops all took pages.
C17_Witness ==
    /\ op = "filmworks"
    /\ pc = "done"
    /\ Cardinality(AtKey(log, "query", RelatedKey("person"))) = 3
    /\ Cardinality(AtKey(log, "query", FilmworkKey("person"))) >= 4
    /\ Cardinality(AtKey(log, "query", DirectKey("filmwork"))) = 3

\* C18: the lookup by identifiers always has identifiers.  No assert of a
\* builder fails; _get_filmworks_by_ids is called with the page Stage B just
\* saved for, which has a row; a Stage-B query is built for a batch that has an
\* identifier; and the direct filmwork stream hands its builder a marker.
C18_NeverWithoutIds ==
    /\ \A i \in At(log, "raise") : log[i].key # "AssertionError"
    /\ \A e \in {"person", "genre"} :
           /\ \A i \in AtKey(log, "save", FilmworkKey(e)) : log[i - 1].ids # <<>>
           /\ \A i \in AtKey(log, "emit", FilmworkKey(e)) :
                  log[i].ids # <<>> /\ Range(log[i].ids) = Range(log[i - 2].ids)
    /\ pc = "dependent" => entity_ids # <<>>
    /\ \A i \in AtKey(log, "get", DirectKey("filmwork")) : log[i].val # None
    /\ pc = "dependent" => ENABLED _get_filmworks_ids_with_related_entities

\* The lookup was called for a page of one identifier and for a page of two.
C18_Witness ==
    /\ op = "filmworks"
    /\ pc = "done"
    /\ \E i \in AtKey(log, "emit", FilmworkKey("genre")) : Len(log[i].ids) = 1
    /\ \E j \in AtKey(log, "emit", FilmworkKey("person")) : Len(log[j].ids) = 2
    /\ AtKey(log, "query", DirectKey("filmwork")) # {}

\* C19: inside one Stage-B sub-stream the batches come in increasing marker
\* order and no filmwork comes twice: a batch has no filmwork twice and is in
\* marker order, and every filmwork of a later batch of the sub-stream has a
\* greater marker than every filmwork of an earlier one.  (The direct stream
\* likewise repeats none; what repeats does so across sub-streams or streams.)
SameSubStream(e, i, j) == \A k \in AtKey(log, "reset", FilmworkKey(e)) : k < i \/ k > j

C19_NoRepeatInsideSubStream ==
    /\ \A i \in At(log, "emit") :
           \A a, b \in 1..Len(log[i].ids) :
               a < b => (/\ log[i].ids[a] # log[i].ids[b]
                         /\ modified[log[i].ids[a]] <= modified[log[i].ids[b]])
    /\ \A e \in CascadesOf(op) :
           \A i, j \in AtKey(log, "emit", FilmworkKey(e)) :
               (i < j /\ SameSubStream(e, i, j)) =>
                   \A r \in Range(log[i].ids) : \A q \in Range(log[j].ids) :
                       modified[r] < modified[q]
    /\ \A e \in DirectOf(op) :
           \A i, j \in AtKey(log, "emit", DirectKey(e)) :
               i < j => Range(log[i].ids) \cap Range(log[j].ids) = {}

\* A sub-stream of two batches, f1 then f2, and f2 again in the sub-stream of the
\* next Stage-A batch and in the direct stream.
C19_Witness ==
    /\ op = "filmworks"
    /\ pc = "done"
    /\ \E i, j, k \in AtKey(log, "emit", FilmworkKey("person")) :
          /\ i < j /\ j < k
          /\ SameSubStream("person", i, j)
          /\ ~SameSubStream("person", j, k)
          /\ log[i].ids = <<"f1">>
          /\ log[j].ids = <<"f2">>
          /\ log[k].ids = <<"f2">>
    /\ \E i \in AtKey(log, "emit", DirectKey("filmwork")) : "f2" \in Range(log[i].ids)

\* C20: genres, personas and filmworks pulled in any interleaving by one caller.
\* Each generator reads, at every iteration, the watermark it last saved or reset
\* itself (what the caller found when it had none), and its keys hold what it
\* last wrote: it does what it does when pulled alone.  This holds of
\* get_updated_genres() and get_updated_personas() whatever else is pulled, and
\* of a get_updated_filmworks() as long as no second one is pulled; two
\* get_updated_filmworks() pulled in turn read each other's watermarks.
LogOf(inst) == IF others.cur = inst THEN log ELSE others.frames[inst].log
PcOf(inst) == IF others.cur = inst THEN pc ELSE others.frames[inst].pc

\* What the log l says key holds before its event i.
Held(l, i, key) ==
    LET w == {j \in 1..(i - 1) : l[j].ev \in {"save", "reset"} /\ l[j].key = key}
    IN  IF w = {} THEN h.state0[key]
        ELSE l[CHOOSE j \in w : \A k \in w : k <= j].val

PulledAsAlone(inst) ==
    LET l == LogOf(inst)
    IN  /\ \A i \in At(l, "get") : l[i].val = Held(l, i, l[i].key)
        /\ PcOf(inst) # "created" =>
               \A key \in KeysOf[GeneratorOf(inst)] : state[key] = Held(l, Len(l) + 1, key)

C20_InterleavedAsAlone ==
    /\ PulledAsAlone("genres")
    /\ PulledAsAlone("personas")
    /\ PcOf("filmworks2") = "created" => PulledAsAlone("filmworks")
    /\ PcOf("filmworks") = "created" => PulledAsAlone("filmworks2")

\* The three generators are all suspended after a batch, none exhausted; and a
\* second get_updated_filmworks() pulled in between has read a watermark the
\* first one saved.
C20_Witness ==
    /\ \A inst \in {"genres", "personas", "filmworks"} :
           /\ PcOf(inst) \in {"direct", "dependent"}
           /\ At(LogOf(inst), "emit") # {}
    /\ ~PulledAsAlone("filmworks2")

====
